---- MODULE Spec2Model ----
(***************************************************************************)
(* PayBaba API: the Paylabs gateway client (request signing, callback      *)
(* verification), the transaction routes that use it (create, check-status,*)
(* webhook) and the rule based credit scoring service.                     *)
(*                                                                         *)
(* Text is modelled as follows.  A path and a canonical signing string are *)
(* sequences of string tokens in which "/" and ":" are tokens of their own.*)
(* A JSON object is the sequence of its <<key, value>> members in insertion*)
(* order; its serialisation is a TLA+ string built by concatenation.  A raw*)
(* HTTP body is the member sequence together with its whitespace layout.   *)
(* SHA-256 is treated as injective: the digest of a text is the text in a  *)
(* wrapper.  RSA-SHA256 (PKCS#1 v1.5, deterministic) is the pair of the    *)
(* signing key and the signed message; a base64 text is the bytes it       *)
(* decodes to together with the spelling used, because Node's decoder maps *)
(* several spellings to the same bytes.                                    *)
(***************************************************************************)
EXTENDS Integers, Sequences, FiniteSets, Bags, TLC

VARIABLES client, transactions, daily, slots, wh, res, sent, lastOp, call,
          scores, alerts, users, merchants, time, resetTokens

vars == <<client, transactions, daily, slots, wh, res, sent, lastOp, call, scores, alerts,
          users, merchants, time, resetTokens>>

\* the users and merchants tables are empty, no reset token was handed out
NoResets == [issued |-> {}, used |-> {}]
AuthIdle ==
    /\ users = <<>>
    /\ merchants = <<>>
    /\ time = 0
    /\ resetTokens = NoResets

(***************************************************************************)
(* Generic helpers                                                         *)
(***************************************************************************)
RECURSIVE SumSeq(_)
SumSeq(s) == IF s = <<>> THEN 0 ELSE Head(s) + SumSeq(Tail(s))

Min(a, b) == IF a <= b THEN a ELSE b
Max(a, b) == IF a >= b THEN a ELSE b

(***************************************************************************)
(* JSON objects: sequences of <<key, value>> members.                      *)
(***************************************************************************)
HasKey(obj, k) == \E i \in 1..Len(obj) : obj[i][1] = k

\* obj[k]; "undefined" when the member is absent
Get(obj, k) ==
    IF HasKey(obj, k)
    THEN obj[CHOOSE i \in 1..Len(obj) : obj[i][1] = k][2]
    ELSE "undefined"

\* obj[k] = v : an existing member keeps its position, a new one is appended
Assign(obj, k, v) ==
    IF HasKey(obj, k)
    THEN [i \in 1..Len(obj) |-> IF obj[i][1] = k THEN <<k, v>> ELSE obj[i]]
    ELSE Append(obj, <<k, v>>)

\* { ...a, ...b }
RECURSIVE Spread(_, _)
Spread(a, b) ==
    IF b = <<>> THEN a ELSE Spread(Assign(a, Head(b)[1], Head(b)[2]), Tail(b))

RECURSIVE Members(_, _)
Members(obj, sep) ==
    IF obj = <<>> THEN ""
    ELSE "'" \o Head(obj)[1] \o "'" \o ":" \o sep \o "'" \o Head(obj)[2] \o "'"
         \o (IF Tail(obj) = <<>> THEN "" ELSE "," \o sep \o Members(Tail(obj), sep))

\* JSON.stringify(obj): the minified serialisation
JsonStringify(obj) == "{" \o Members(obj, "") \o "}"

\* the bytes of a raw body: the members as laid out by the sender
RawText(raw) == "{" \o Members(raw.fields, IF raw.ws THEN " " ELSE "") \o "}"

\* JSON.parse of a raw body (express.json()): layout is lost, order is kept
JsonParse(raw) == Spread(<<>>, raw.fields)

(***************************************************************************)
(* src/utils/Paylabs.js                                                    *)
(***************************************************************************)
NoKey == "none"

sha256HexLower(text) == "sha256(" \o text \o ")"

\* path.startsWith("/")
StartsWithSlash(path) == Len(path) > 0 /\ path[1] = "/"

cleanPath(path) == IF StartsWithSlash(path) THEN path ELSE <<"/">> \o path

\* `${timestamp}`: a missing header is the text "undefined"
TsText(ts) == IF ts.present THEN ts.val ELSE "undefined"

canonical(path, hash, tsText) == <<"POST", ":">> \o cleanPath(path) \o <<":", hash, ":", tsText>>

buildSignStringForRequest(bodyObj, path, tsText) ==
    canonical(path, sha256HexLower(JsonStringify(bodyObj)), tsText)

buildSignStringForCallbackNoTs(path, bodyRaw, tsText) ==
    canonical(path, sha256HexLower(bodyRaw), "")

buildSignStringForCallback(path, bodyRaw, tsText) ==
    canonical(path, sha256HexLower(bodyRaw), tsText)

\* crypto.sign / crypto.verify with RSA-SHA256
RsaSign(key, str) == [key |-> key, msg |-> str]

RsaVerify(pub, str, bytes) == bytes.key = pub /\ bytes.msg = str

GarbageBytes == [key |-> NoKey, msg |-> <<>>]

\* Buffer.toString("base64") and Buffer.from(text, "base64")
Base64Spellings == {"canonical", "nopad", "trailingbits"}
ToBase64(bytes) == [present |-> TRUE, bytes |-> bytes, enc |-> "canonical"]
Respell(b64, e) == [b64 EXCEPT !.enc = e]
FromBase64(b64) == b64.bytes
MissingHeader == [present |-> FALSE, bytes |-> GarbageBytes, enc |-> "canonical"]

\* outcome of a call that may throw: "throw" or the returned value
signBase64(cfg, str) ==
    IF cfg.privateKey = NoKey THEN [threw |-> TRUE, val |-> MissingHeader]
    ELSE [threw |-> FALSE, val |-> ToBase64(RsaSign(cfg.privateKey, str))]

verifyBase64KeyOnly(cfg, str, signatureB64) ==
    IF cfg.publicKey = NoKey THEN "throw"
    ELSE IF ~signatureB64.present THEN "throw"
    ELSE IF FromBase64(signatureB64).key = cfg.publicKey THEN "true"
    ELSE "false"

verifyBase64(cfg, str, signatureB64) ==
    IF cfg.publicKey = NoKey THEN "throw"
    ELSE IF ~signatureB64.present THEN "throw"
    ELSE IF RsaVerify(cfg.publicKey, str, FromBase64(signatureB64)) THEN "true"
    ELSE "false"

verifySignature(cfg, path, bodyRaw, signatureB64, ts) ==
    verifyBase64(cfg, buildSignStringForCallback(path, bodyRaw, TsText(ts)), signatureB64)

\* genIds(): one id used for both requestId and merchantTradeNo
genIds(id) == [requestId |-> id, merchantTradeNo |-> id]

NoMid == "null"
BaseUrl == <<"https://sit-pay.paylabs.co.id", "/", "payment", "/">>

getFullUrl(path) ==
    LET clean == IF StartsWithSlash(path) THEN Tail(path) ELSE path
    IN IF Len(clean) >= 2 /\ clean[1] = "payment" /\ clean[2] = "/"
       THEN SubSeq(BaseUrl, 1, 2) \o clean
       ELSE BaseUrl \o clean

NoHeaders == [names |-> {}, ts |-> "", sig |-> MissingHeader, partner |-> "", requestId |-> ""]
NoMessage == [path |-> <<>>, url |-> <<>>, headers |-> NoHeaders, payload |-> <<>>, body |-> ""]

\* { merchantId, requestId, merchantTradeNo, ...body }
mergePayload(mid, requestId, merchantTradeNo, body) ==
    Spread(<<<<"merchantId", mid>>, <<"requestId", requestId>>,
             <<"merchantTradeNo", merchantTradeNo>>>>, body)

\* the headers of an outbound request
requestHeadersStaleTs(timestamp, signature, mid, requestId) ==
    [names |-> {"X-TIMESTAMP", "X-SIGNATURE", "X-PARTNER-ID", "X-REQUEST-ID", "Content-Type"},
     ts |-> "t0", sig |-> signature, partner |-> mid, requestId |-> requestId]

requestHeaders(timestamp, signature, mid, requestId) ==
    [names |-> {"X-TIMESTAMP", "X-SIGNATURE", "X-PARTNER-ID", "X-REQUEST-ID", "Content-Type"},
     ts |-> timestamp, sig |-> signature, partner |-> mid, requestId |-> requestId]

\* request(path, body, opts) up to the fetch: what is put on the wire, or a throw.
\* opts.requestId / opts.merchantTradeNo / opts.timestamp are "" when not given;
\* gen is the id genIds() draws and now the clock reading of nowJakarta().
request(cfg, path, body, opts, gen, now) ==
    IF cfg.mid = NoMid THEN [threw |-> TRUE, msg |-> NoMessage]
    ELSE
      LET timestamp == IF opts.timestamp # "" THEN opts.timestamp ELSE now
          requestId == IF opts.requestId # "" THEN opts.requestId ELSE genIds(gen).requestId
          merchantTradeNo == IF opts.merchantTradeNo # "" THEN opts.merchantTradeNo
                             ELSE genIds(gen).merchantTradeNo
          payload == mergePayload(cfg.mid, requestId, merchantTradeNo, body)
          signString == buildSignStringForRequest(payload, path, timestamp)
          signature == signBase64(cfg, signString)
      IN IF signature.threw THEN [threw |-> TRUE, msg |-> NoMessage]
         ELSE [threw |-> FALSE,
               msg |-> [path |-> path, url |-> getFullUrl(path),
                        headers |-> requestHeaders(timestamp, signature.val, cfg.mid, requestId),
                        payload |-> payload,
                        body |-> JsonStringify(payload)]]

\* buildResponseCallback(path): the signed acknowledgment of a callback
buildResponseCallback(cfg, path, now) ==
    LET payload == <<<<"responseCode", "success">>, <<"responseMessage", "success">>>>
        signature == signBase64(cfg, buildSignStringForRequest(payload, path, now))
    IN IF signature.threw THEN [threw |-> TRUE, headers |-> NoHeaders, body |-> <<>>]
       ELSE [threw |-> FALSE,
             headers |-> [names |-> {"Content-Type", "X-TIMESTAMP", "X-SIGNATURE", "X-PARTNER-ID"},
                          ts |-> now, sig |-> signature.val, partner |-> cfg.mid,
                          requestId |-> ""],
             body |-> payload]

(***************************************************************************)
(* The client exercised on bounded inputs (specification SpecClient).      *)
(* `call` records the last application: its arguments and its outcome.     *)
(***************************************************************************)
KeyPairs == {"kA", "kB"}
QrisQueryPathSample == <<"/", "payment", "/", "v2.3", "/", "qris", "/", "query">>
SamplePaths == {<<"/", "cb">>, <<"cb">>, <<"/", "q">>, <<"q">>}
SampleBodies == {"{}", "{'status':'02'}", "{'status':'09'}"}
SampleTs == {"t1", "t2"}
TsHeaders == {[present |-> TRUE, val |-> t] : t \in SampleTs}
                 \cup {[present |-> FALSE, val |-> ""]}

SampleInputs == [path : SamplePaths, body : SampleBodies, ts : SampleTs]

\* the signature headers an adversary or the gateway may send for string s
SigHeadersFor(s) ==
    {Respell(ToBase64(RsaSign(k, s)), e) : k \in KeyPairs, e \in Base64Spellings}
        \cup {ToBase64(GarbageBytes), MissingHeader}

NoCall == [fn |-> "none"]

IdleClient == [mid |-> "MID1", privateKey |-> "kM", publicKey |-> "kA"]

PureFrame == UNCHANGED <<client, transactions, daily, slots, wh, res, sent, lastOp, scores, alerts,
                         users, merchants, time, resetTokens>>

\* verifyBase64(str, sig) where sig derives from signBase64(signedStr)
VerifyBase64Call ==
  /\ call = NoCall
  /\ \E priv \in KeyPairs, pub \in KeyPairs \cup {NoKey}, a \in SampleInputs, b \in SampleInputs :
      LET cfg == [mid |-> "MID1", privateKey |-> priv, publicKey |-> pub]
          signedStr == buildSignStringForCallback(a.path, a.body, a.ts)
          str == buildSignStringForCallback(b.path, b.body, b.ts)
          orig == signBase64(cfg, signedStr).val
      IN \E sig \in SigHeadersFor(signedStr) \ {MissingHeader} :
           /\ call' = [fn |-> "verifyBase64", cfg |-> cfg, signedStr |-> signedStr,
                       origSig |-> orig, str |-> str, sig |-> sig,
                       result |-> verifyBase64(cfg, str, sig)]
           /\ PureFrame

\* the canonical string of two inputs, for the request and the callback builder
CanonicalCall ==
  /\ call = NoCall
  /\ \E a \in SampleInputs, b \in SampleInputs, kind \in {"request", "callback"} :
      LET build(x) == IF kind = "request"
                      THEN buildSignStringForRequest(<<<<"k", x.body>>>>, x.path, x.ts)
                      ELSE buildSignStringForCallback(x.path, x.body, x.ts)
      IN /\ call' = [fn |-> "canonical", kind |-> kind, a |-> a, b |-> b,
                     outA |-> build(a), outB |-> build(b)]
         /\ PureFrame

\* verifySignature(path, bodyRaw, signatureB64, timestamp) on arbitrary headers
VerifySignatureCall ==
  /\ call = NoCall
  /\ \E pub \in KeyPairs \cup {NoKey}, a \in SampleInputs, b \in SampleInputs, ts \in TsHeaders :
      LET cfg == [mid |-> "MID1", privateKey |-> "kM", publicKey |-> pub]
          signedStr == buildSignStringForCallback(a.path, a.body, a.ts)
      IN \E sig \in SigHeadersFor(signedStr) :
           /\ call' = [fn |-> "verifySignature", cfg |-> cfg, path |-> b.path,
                       body |-> b.body, sig |-> sig, ts |-> ts,
                       result |-> verifySignature(cfg, b.path, b.body, sig, ts)]
           /\ PureFrame

RequestPaths == {QrisQueryPathSample, <<"v2.3", "/", "qris", "/", "query">>}
RequestBodies ==
    {<<>>,
     <<<<"merchantId", "MID1">>, <<"paymentType", "QRIS">>>>,
     <<<<"merchantId", "OTHER">>>>,
     <<<<"merchantTradeNo", "T1">>, <<"paymentType", "QRIS">>>>,
     <<<<"merchantId", "MID1">>, <<"merchantTradeNo", "T1">>,
       <<"requestId", "REQ-1">>, <<"paymentType", "QRIS">>>>}
RequestOpts == [requestId : {"", "R1"}, merchantTradeNo : {"", "M1"}, timestamp : {"", "t9"}]
GeneratedIds == {"G1", "G2"}

\* request(path, body, opts) on arbitrary caller bodies and options
RequestCall ==
  /\ call = NoCall
  /\ \E mid \in {"MID1", NoMid}, priv \in {"kM", NoKey}, path \in RequestPaths,
       body \in RequestBodies, opts \in RequestOpts, gen \in GeneratedIds, now \in SampleTs :
      LET cfg == [mid |-> mid, privateKey |-> priv, publicKey |-> "kA"]
      IN /\ call' = [fn |-> "request", cfg |-> cfg, path |-> path, body |-> body,
                     opts |-> opts, gen |-> gen, now |-> now,
                     out |-> request(cfg, path, body, opts, gen, now)]
         /\ PureFrame

\* buildResponseCallback(path)
ResponseCallbackCall ==
  /\ call = NoCall
  /\ \E mid \in {"MID1", NoMid}, priv \in {"kM", NoKey}, path \in SamplePaths, now \in SampleTs :
      LET cfg == [mid |-> mid, privateKey |-> priv, publicKey |-> "kA"]
      IN /\ call' = [fn |-> "buildResponseCallback", cfg |-> cfg, path |-> path, now |-> now,
                     out |-> buildResponseCallback(cfg, path, now)]
         /\ PureFrame

InitClient ==
    /\ client = IdleClient
    /\ transactions = <<>>
    /\ daily = <<>>
    /\ slots = EmptyBag
    /\ wh = <<>>
    /\ res = <<>>
    /\ sent = NoMessage
    /\ lastOp = "init"
    /\ call = NoCall
    /\ scores = <<>>
    /\ alerts = <<>>
    /\ AuthIdle

\* JSON web tokens; time is counted in ticks of 15 minutes
JwtSecret == "JWT_ACCESS_TOKEN_SECRET"
RefreshSecret == "JWT_REFRESH_TOKEN_SECRET"
OtherSecret == "not-the-secret"
\* expiresIn "15m", "1h" and "7d"
AccessLife == 1
ResetLife == 4
RefreshLife == 672

NoToken == [payload |-> [userId |-> 0, email |-> ""], key |-> "", iat |-> 0, exp |-> 0]
NoExpiry == 0 - 1

\* jwt.sign(payload, secret, { expiresIn }): iat is the second of signing
jwtSign(payload, secret, now, expiresIn) ==
    [payload |-> payload, key |-> secret, iat |-> now, exp |-> now + expiresIn]

\* jwt.verify(token, secret)
jwtVerify(token, secret, now) ==
    IF token = NoToken \/ token.key # secret THEN "JsonWebTokenError"
    ELSE IF now >= token.exp THEN "TokenExpiredError"
    ELSE "ok"

\* a reset token signed with another key
ForgedResetToken == jwtSign([userId |-> 1, email |-> "a@m.id"], OtherSecret, 0, ResetLife)

\* the guard of the bank router: router.use(authenticateToken)
BankApiKey == "bank-secret-key-123"
ApiKeys == {"", BankApiKey, "invalid-key"}
InvalidTokenStatuses == {401, 403}

authenticateToken(bearer, now, invalidStatus) ==
    IF bearer = NoToken
    THEN [status |-> 401, message |-> "Token tidak ditemukan", next |-> FALSE]
    ELSE IF jwtVerify(bearer, JwtSecret, now) # "ok"
    THEN [status |-> invalidStatus, message |-> "Token tidak valid atau sudah kadaluarsa",
          next |-> FALSE]
    ELSE [status |-> 200, message |-> "", next |-> TRUE]

\* the Authorization headers a caller can send: none, an access token that
\* login handed out (fresh or expired), a token signed with another key
BearerTokens ==
    {NoToken, ForgedResetToken,
     jwtSign([userId |-> 1, email |-> "a@m.id"], JwtSecret, 0, AccessLife),
     jwtSign([userId |-> 1, email |-> "a@m.id"], JwtSecret, 0 - AccessLife, AccessLife)}

\* a request to any /api/bank route, up to the route handler
BankRequest ==
    /\ call = NoCall
    /\ \E apiKey \in ApiKeys, bearer \in BearerTokens, invalidStatus \in InvalidTokenStatuses :
         call' = [fn |-> "bank", apiKey |-> apiKey, bearer |-> bearer,
                  out |-> authenticateToken(bearer, time, invalidStatus)]
    /\ PureFrame

NextClient ==
    \/ BankRequest
    \/ VerifyBase64Call
    \/ CanonicalCall
    \/ VerifySignatureCall
    \/ RequestCall
    \/ ResponseCallbackCall

SpecClient == InitClient /\ [][NextClient]_vars

(***************************************************************************)
(* Claims about the gateway client, checked under SpecClient.              *)
(***************************************************************************)
MatchingKeys == call.cfg.privateKey = call.cfg.publicKey

\* C3 as stated: with a matching key pair a signature verifies against the
\* string it signs, and verifyBase64 returns false when the signature text or
\* the canonical string is any other value.
C3_AnyOtherValueRejected ==
    (call.fn = "verifyBase64" /\ MatchingKeys) =>
        /\ (call.str = call.signedStr /\ call.sig = call.origSig) => call.result = "true"
        /\ (call.str # call.signedStr \/ call.sig # call.origSig) => call.result = "false"

\* C3 amended: with a matching key pair verifyBase64 returns true when the
\* string is the signed string and the signature text decodes to the bytes of
\* its signature, and returns false (no throw) when the string differs or the
\* signature text decodes to other bytes.
C3_SignVerifyRoundTrip ==
    (call.fn = "verifyBase64" /\ MatchingKeys) =>
        /\ (call.str = call.signedStr /\ FromBase64(call.sig) = FromBase64(call.origSig))
               => call.result = "true"
        /\ (call.str # call.signedStr \/ FromBase64(call.sig) # FromBase64(call.origSig))
               => call.result = "false"

\* a signature checked against another canonical string is rejected
C3_Witness ==
    /\ call.fn = "verifyBase64"
    /\ MatchingKeys
    /\ call.sig = call.origSig
    /\ call.str # call.signedStr
    /\ call.result = "false"

DiffersOnlyIn(a, b, f) ==
    /\ a[f] # b[f]
    /\ \A g \in {"path", "body", "ts"} \ {f} : a[g] = b[g]

\* C4 as stated: equal inputs give equal canonical strings, and inputs that
\* differ in exactly one of path, body, timestamp give different ones.
C4_OneFieldChangesOutput ==
    call.fn = "canonical" =>
        /\ call.a = call.b => call.outA = call.outB
        /\ (\E f \in {"path", "body", "ts"} : DiffersOnlyIn(call.a, call.b, f))
               => call.outA # call.outB

\* C4 amended: equal inputs give equal canonical strings; inputs that differ
\* only in body or only in timestamp give different ones; inputs that differ
\* only in path give different ones exactly when the paths still differ once a
\* leading "/" is added to a path that has none.
C4_CanonicalInjectiveUpToSlash ==
    call.fn = "canonical" =>
        /\ call.a = call.b => call.outA = call.outB
        /\ (\E f \in {"body", "ts"} : DiffersOnlyIn(call.a, call.b, f))
               => call.outA # call.outB
        /\ DiffersOnlyIn(call.a, call.b, "path")
               => (call.outA # call.outB <=> cleanPath(call.a.path) # cleanPath(call.b.path))

\* two callback inputs that differ in the timestamp only
C4_Witness ==
    /\ call.fn = "canonical"
    /\ call.kind = "callback"
    /\ DiffersOnlyIn(call.a, call.b, "ts")
    /\ call.outA # call.outB

\* the id request() is to use: the caller's option, else the generated one
ExpectedRequestId == IF call.opts.requestId # "" THEN call.opts.requestId ELSE call.gen
ExpectedTradeNo ==
    IF call.opts.merchantTradeNo # "" THEN call.opts.merchantTradeNo ELSE call.gen

\* C5: in the payload request() builds, merchantId is the configured partner
\* id and requestId / merchantTradeNo are the option given or else the
\* generated id, whatever the caller's body contains.
C5_IdentityFieldsNotOverridden ==
    (call.fn = "request" /\ ~call.out.threw) =>
        /\ Get(call.out.msg.payload, "merchantId") = call.cfg.mid
        /\ Get(call.out.msg.payload, "requestId") = ExpectedRequestId
        /\ Get(call.out.msg.payload, "merchantTradeNo") = ExpectedTradeNo

\* C6: every request put on the wire carries X-TIMESTAMP, X-SIGNATURE,
\* X-PARTNER-ID and X-REQUEST-ID, and its X-SIGNATURE is the signature, under
\* the configured private key, of the canonical string of the path, the body
\* text transmitted and the X-TIMESTAMP value sent; nothing is sent unsigned.
C6_WireSignatureCoversWhatIsSent ==
    (call.fn = "request" /\ ~call.out.threw) =>
        LET m == call.out.msg
        IN /\ {"X-TIMESTAMP", "X-SIGNATURE", "X-PARTNER-ID", "X-REQUEST-ID"} \subseteq m.headers.names
           /\ m.headers.sig =
                 ToBase64(RsaSign(call.cfg.privateKey,
                     canonical(call.path, sha256HexLower(m.body), m.headers.ts)))
           /\ m.headers.ts = (IF call.opts.timestamp # "" THEN call.opts.timestamp ELSE call.now)
           /\ m.headers.partner = call.cfg.mid
           /\ m.headers.requestId = ExpectedRequestId
           /\ call.cfg.privateKey # NoKey
           /\ call.cfg.mid # NoMid

\* a request whose body carries its own identity fields went on the wire
C6_Witness ==
    /\ call.fn = "request"
    /\ ~call.out.threw
    /\ HasKey(call.body, "requestId")
    /\ call.opts.timestamp = ""

\* C7: with a public key configured verifySignature returns true or false
\* for every path, body, signature header and timestamp header; it does not
\* throw.
C7_NoThrowWithPublicKey ==
    (call.fn = "verifySignature" /\ call.cfg.publicKey # NoKey) =>
        call.result \in {"true", "false"}

\* C8: buildResponseCallback returns a body with the partner id, a request id
\* and error code "0", and headers with timestamp, signature, partner id and
\* request id, the signature being that of the returned body and timestamp.
C8_AcknowledgmentEnvelope ==
    (call.fn = "buildResponseCallback" /\ ~call.out.threw) =>
        LET r == call.out
        IN /\ Get(r.body, "merchantId") = call.cfg.mid
           /\ HasKey(r.body, "requestId")
           /\ Get(r.body, "errCode") = "0"
           /\ {"X-TIMESTAMP", "X-SIGNATURE", "X-PARTNER-ID", "X-REQUEST-ID"} \subseteq r.headers.names
           /\ r.headers.sig =
                 ToBase64(RsaSign(call.cfg.privateKey,
                     buildSignStringForRequest(r.body, call.path, r.headers.ts)))

(***************************************************************************)
(* routes/transaction.js: create, check-status and the Paylabs webhook     *)
(* (specification Spec).  One merchant, one calendar day.  A handler that  *)
(* has read a transaction and still has to write it is in flight between  *)
(* its two steps, so that handlers interleave at their awaits; slots is    *)
(* the bag of the handlers in flight.                                      *)
(* wh, res and sent are the input and the output of the step just taken:   *)
(* the callback received, the HTTP response emitted by the webhook and the *)
(* request put on the wire; a step that has none of them clears them.      *)
(***************************************************************************)
QrisIds == {"T1"}
CashIds == {"T2"}
TxIds == QrisIds \cup CashIds
UnknownTradeNo == "T9"
QrisAmounts == {10}
CashAmounts == {25}
MaxInFlight == 2
MaxRevenueRows == 3
GatewayKey == "kG"
MerchantKey == "kM"
AttackerKey == "kX"
Clock == "t1"

CallbackPath == <<"/", "api", "/", "webhook", "/", "paylabs">>
QrisCreatePath == <<"/", "payment", "/", "v2.3", "/", "qris", "/", "create">>
QrisQueryPath == QrisQueryPathSample

NoTx == [exists |-> FALSE, status |-> "", amount |-> 0, method |-> "", settled |-> FALSE]
NoWebhook == [raw |-> [fields |-> <<>>, ws |-> FALSE], sig |-> MissingHeader,
              ts |-> [present |-> FALSE, val |-> ""], bodyString |-> "", verdict |-> "none"]
NoResponse == [status |-> "", headers |-> NoHeaders, body |-> <<>>]
EmptyDaily == [totalAmount |-> 0, transactionCount |-> 0, successfulCount |-> 0]

Init ==
    /\ client \in [mid : {"MID1"}, privateKey : {MerchantKey, NoKey}, publicKey : {GatewayKey, NoKey}]
    /\ transactions = [id \in TxIds |-> NoTx]
    /\ daily = EmptyDaily
    /\ slots = EmptyBag
    /\ wh = NoWebhook
    /\ res = NoResponse
    /\ sent = NoMessage
    /\ lastOp = "init"
    /\ call = NoCall
    /\ scores = <<>>
    /\ alerts = <<>>
    /\ AuthIdle

\* a handler may suspend at an await while fewer than MaxInFlight are suspended
CanSuspend == BagCardinality(slots) < MaxInFlight
Suspend(s) == slots (+) SetToBag({s})
Resume(s) == slots (-) SetToBag({s})

\* DailyRevenue.findOrCreate(...).then(daily.increment(...))
incrementRevenue(d, amount) ==
    [totalAmount |-> d.totalAmount + amount,
     transactionCount |-> d.transactionCount + 1,
     successfulCount |-> d.successfulCount + 1]

\* transaction.update({status, settlementDate}) followed by the revenue update
applyStatus(id, newStatus) ==
    /\ newStatus = "Success" => daily.transactionCount < MaxRevenueRows
    /\ transactions' = [transactions EXCEPT
           ![id].status = newStatus,
           ![id].settled = IF newStatus = "Success" THEN TRUE ELSE @]
    /\ daily' = IF newStatus = "Success"
                THEN incrementRevenue(daily, transactions[id].amount)
                ELSE daily

\* POST /create with type QRIS: request to the gateway, then a Pending row
CreateQris ==
    \E id \in QrisIds, amount \in QrisAmounts, gatewayOk \in BOOLEAN :
      LET payload == <<<<"merchantId", client.mid>>, <<"paymentType", "QRIS">>>>
          r == request(client, QrisCreatePath, payload,
                       [requestId |-> id, merchantTradeNo |-> id, timestamp |-> ""], id, Clock)
      IN /\ ~transactions[id].exists
         /\ lastOp' = "createQris"
         /\ IF r.threw
            THEN /\ sent' = NoMessage
                 /\ UNCHANGED transactions
            ELSE /\ sent' = r.msg
                 /\ transactions' =
                      IF gatewayOk
                      THEN [transactions EXCEPT ![id] =
                              [exists |-> TRUE, status |-> "Pending", amount |-> amount,
                               method |-> "QRIS", settled |-> FALSE]]
                      ELSE transactions
         /\ wh' = NoWebhook
         /\ res' = NoResponse
         /\ UNCHANGED <<client, daily, slots, call, scores, alerts, users, merchants, time, resetTokens>>

\* POST /create with type CASH: a Success row and the day's revenue
CreateCash ==
    \E id \in CashIds, amount \in CashAmounts :
      /\ ~transactions[id].exists
      /\ daily.transactionCount < MaxRevenueRows
      /\ lastOp' = "createCash"
      /\ transactions' = [transactions EXCEPT ![id] =
              [exists |-> TRUE, status |-> "Success", amount |-> amount,
               method |-> "CASH", settled |-> TRUE]]
      /\ daily' = incrementRevenue(daily, amount)
      /\ wh' = NoWebhook
      /\ res' = NoResponse
      /\ sent' = NoMessage
      /\ UNCHANGED <<client, slots, call, scores, alerts, users, merchants, time, resetTokens>>

\* GET /:id/check-status up to the gateway inquiry: the row is read, the
\* inquiry is sent
CheckStatusBegin ==
    \E id \in TxIds :
      LET payload == <<<<"merchantId", client.mid>>, <<"merchantTradeNo", id>>,
                       <<"paymentType", "QRIS">>>>
          r == request(client, QrisQueryPath, payload,
                       [requestId |-> "CHK1", merchantTradeNo |-> "", timestamp |-> ""],
                       "G1", Clock)
      IN /\ CanSuspend
         /\ transactions[id].exists
         /\ transactions[id].method # "CASH"
         /\ lastOp' = "checkBegin"
         /\ IF r.threw
            THEN /\ sent' = NoMessage
                 /\ UNCHANGED slots
            ELSE /\ sent' = r.msg
                 /\ slots' = Suspend([kind |-> "check", tx |-> id,
                                       seen |-> transactions[id].status,
                                       newStatus |-> "", verdict |-> ""])
         /\ wh' = NoWebhook
         /\ res' = NoResponse
         /\ UNCHANGED <<client, transactions, daily, call, scores, alerts, users, merchants, time, resetTokens>>

\* check-status after the gateway answered: status from the answer, written
\* when it differs from the row as it was read
CheckStatusFinish ==
    \E s \in BagToSet(slots), errCode \in {"0", "5"}, status \in {"01", "02", "09"} :
      LET newStatus == IF status = "09" THEN "Failed"
                       ELSE IF status = "02" THEN "Success" ELSE s.seen
      IN /\ s.kind = "check"
         /\ lastOp' = "checkFinish"
         /\ slots' = Resume(s)
         /\ IF errCode = "0" /\ s.seen # newStatus
            THEN applyStatus(s.tx, newStatus)
            ELSE UNCHANGED <<transactions, daily>>
         /\ wh' = NoWebhook
         /\ res' = NoResponse
         /\ sent' = NoMessage
         /\ UNCHANGED <<client, call, scores, alerts, users, merchants, time, resetTokens>>

\* the callback bodies the gateway or anyone else may post
WebhookContents ==
    {<<<<"merchantTradeNo", t>>, <<"status", se[1]>>, <<"errCode", se[2]>>>> :
        t \in TxIds \cup {UnknownTradeNo},
        se \in {<<"02", "0">>, <<"09", "0">>, <<"02", "5">>}}

\* the content used for callbacks that are not the gateway's own bytes
ForgedContent == <<<<"merchantTradeNo", "T1">>, <<"status", "02">>, <<"errCode", "0">>>>

gatewaySig(text, ts) ==
    ToBase64(RsaSign(GatewayKey, buildSignStringForCallback(CallbackPath, text, ts)))

\* callbacks as received: body bytes and X-SIGNATURE.  The gateway's own
\* callbacks are minified and signed over their bytes; the others are a body
\* laid out with whitespace, signed by the gateway over its bytes or over the
\* minified form of the same JSON, a body signed with another key, and a body
\* without signature
WebhookRequests ==
    {[raw |-> [fields |-> c, ws |-> FALSE],
      sig |-> gatewaySig(RawText([fields |-> c, ws |-> FALSE]), Clock)] : c \in WebhookContents}
    \cup
    {[raw |-> [fields |-> ForgedContent, ws |-> TRUE],
      sig |-> gatewaySig(RawText([fields |-> ForgedContent, ws |-> w]), Clock)] : w \in BOOLEAN}
    \cup
    {[raw |-> [fields |-> ForgedContent, ws |-> FALSE], sig |-> s] :
        s \in {ToBase64(RsaSign(AttackerKey,
                 buildSignStringForCallback(CallbackPath,
                     RawText([fields |-> ForgedContent, ws |-> FALSE]), Clock))),
               MissingHeader}}

\* req.rawBody || JSON.stringify(req.body): app.js installs express.json()
\* without a verify hook, so req.rawBody is never set
webhookBodyString(raw) == JsonStringify(JsonParse(raw))

\* isValid of the handler: "true", "false" or "throw"
webhookVerdictUngated(cfg, raw, sig, ts) == "true"

webhookVerdict(cfg, raw, sig, ts) ==
    verifySignature(cfg, CallbackPath, webhookBodyString(raw), sig, ts)

\* status the callback asks for, given the row as read
webhookNewStatus(seen, body) ==
    IF Get(body, "status") = "02" /\ Get(body, "errCode") = "0" THEN "Success"
    ELSE IF Get(body, "status") = "09" THEN "Failed"
    ELSE seen

plainResponse(code) ==
    [status |-> code, headers |-> NoHeaders, body |-> <<<<"errCode", code>>>>]

signedResponse(code, r) == [status |-> code, headers |-> r.headers, body |-> r.body]

\* POST /webhook/paylabs up to the first write: verification, lookup, decision
WebhookReceive ==
    \E req \in WebhookRequests :
        LET raw == req.raw
            sig == req.sig
            ts == [present |-> TRUE, val |-> Clock]
            verdict == webhookVerdict(client, raw, sig, ts)
            body == JsonParse(raw)
            id == Get(body, "merchantTradeNo")
            found == id \in TxIds /\ transactions[id].exists
            newStatus == webhookNewStatus(transactions[id].status, body)
            ack == buildResponseCallback(client, CallbackPath, Clock)
        IN /\ CanSuspend
           /\ lastOp' = "webhookReceive"
           /\ wh' = [raw |-> raw, sig |-> sig, ts |-> ts,
                     bodyString |-> webhookBodyString(raw), verdict |-> verdict]
           /\ IF verdict = "throw" THEN
                 /\ res' = plainResponse("500")
                 /\ UNCHANGED slots
              ELSE IF verdict = "false" THEN
                 /\ res' = plainResponse("401")
                 /\ UNCHANGED slots
              ELSE IF ~found THEN
                 /\ res' = IF ack.threw THEN plainResponse("500")
                           ELSE signedResponse("404", [ack EXCEPT !.body = Assign(@, "errCode", "404")])
                 /\ UNCHANGED slots
              ELSE IF transactions[id].status = newStatus THEN
                 /\ res' = IF ack.threw THEN plainResponse("500") ELSE signedResponse("200", ack)
                 /\ UNCHANGED slots
              ELSE
                 /\ slots' = Suspend([kind |-> "webhook", tx |-> id, seen |-> "",
                                       newStatus |-> newStatus, verdict |-> verdict])
                 /\ res' = NoResponse
           /\ sent' = NoMessage
           /\ UNCHANGED <<client, transactions, daily, call, scores, alerts, users, merchants, time, resetTokens>>

\* the webhook's writes and its signed answer
WebhookApply ==
    \E s \in BagToSet(slots) :
      LET ack == buildResponseCallback(client, CallbackPath, Clock)
      IN /\ s.kind = "webhook"
         /\ lastOp' = "webhookApply"
         /\ slots' = Resume(s)
         /\ applyStatus(s.tx, s.newStatus)
         /\ res' = IF ack.threw THEN plainResponse("500") ELSE signedResponse("200", ack)
         /\ wh' = NoWebhook
         /\ sent' = NoMessage
         /\ UNCHANGED <<client, call, scores, alerts, users, merchants, time, resetTokens>>

Next ==
    \/ CreateQris
    \/ CreateCash
    \/ CheckStatusBegin
    \/ CheckStatusFinish
    \/ WebhookReceive
    \/ WebhookApply

Spec == Init /\ [][Next]_vars

(***************************************************************************)
(* Claims about the webhook handler, checked under Spec.                   *)
(***************************************************************************)

\* C1: the webhook handler writes a transaction or the daily aggregate only
\* after verifySignature returned true for the request's path, body string,
\* X-SIGNATURE and X-TIMESTAMP; the step that receives a callback writes
\* nothing, it suspends for a write only when verification returned true, and
\* the writing step belongs to a handler whose verification returned true.
C1_WritesOnlyAfterVerification ==
    [][ /\ lastOp' = "webhookReceive" =>
              /\ transactions' = transactions
              /\ daily' = daily
              /\ slots' # slots =>
                    verifySignature(client, CallbackPath, wh'.bodyString, wh'.sig, wh'.ts) = "true"
        /\ (lastOp' = "webhookApply" /\ (transactions' # transactions \/ daily' # daily)) =>
              \E s \in BagToSet(slots) : /\ s.kind = "webhook"
                                         /\ slots' = Resume(s)
                                         /\ s.verdict = "true"
      ]_vars

\* a verified callback has moved a Pending transaction to Success
C1_Witness ==
    /\ lastOp = "webhookApply"
    /\ transactions["T1"].status = "Success"
    /\ daily.successfulCount > 0

C18_StatusOnlyLeavesPending ==
    [][\A id \in TxIds :
         /\ (~transactions[id].exists /\ transactions'[id].exists) =>
               transactions'[id].status =
                   (IF transactions'[id].method = "CASH" THEN "Success" ELSE "Pending")
         /\ transactions[id].exists =>
               /\ transactions'[id].exists
               /\ transactions'[id].amount = transactions[id].amount
               /\ transactions'[id].status # transactions[id].status =>
                     /\ transactions[id].status = "Pending"
                     /\ transactions'[id].status \in {"Success", "Failed"}
      ]_vars

\* amount and count the Success transactions account for
SuccessAmount == SumSeq([i \in 1..2 |->
    LET t == transactions[<<"T1", "T2">>[i]]
    IN IF t.exists /\ t.status = "Success" THEN t.amount ELSE 0])
SuccessCount == Cardinality({id \in TxIds :
    transactions[id].exists /\ transactions[id].status = "Success"})

\* C19: the daily aggregate is derivable from the transactions: under every
\* interleaving of CASH creations, callbacks and polls each transaction
\* contributes its amount and one count at most once, and only while it is
\* Success.
C19_DailyDerivedFromTransactions ==
    /\ daily.totalAmount = SuccessAmount
    /\ daily.transactionCount = SuccessCount
    /\ daily.successfulCount = SuccessCount

(***************************************************************************)
(* services/creditScoringService.js (specification SpecScore).             *)
(* JavaScript numbers are modelled in fixed point: rates, percentages,     *)
(* days and component scores are integers counting hundredths, so a score  *)
(* of 100 is 10000.  A run of equal transactions is one group              *)
(* [n, status, amount, settle]: n rows with that status and amount whose   *)
(* settlement came `settle` hundredths of a day after the transaction,     *)
(* NotSettled when settlementDate is null.                                 *)
(***************************************************************************)
NotSettled == 0 - 1
Infinity == 1000000000

\* seq.reduce((sum, x) => sum + F(x), 0)
SumOver(seq, F(_)) == SumSeq([i \in 1..Len(seq) |-> F(seq[i])])

RECURSIVE SqrtSearch(_, _, _)
SqrtSearch(n, lo, hi) ==
    IF lo >= hi THEN lo
    ELSE LET mid == (lo + hi + 1) \div 2
         IN IF mid * mid <= n THEN SqrtSearch(n, mid, hi) ELSE SqrtSearch(n, lo, mid - 1)

\* Math.sqrt, rounded down
Sqrt(n) == SqrtSearch(n, 0, Min(n, 46340))

calculateTransactionVolumeScore(transactionCount) == Min(10000, transactionCount * 100)

calculateRevenueConsistencyScore(volatility) == Max(0, 10000 - volatility)

calculateGrowthTrendScore(growthMoM) == Max(0, Min(10000, 5000 + (growthMoM * 5) \div 2))

calculateRefundRateScore(refundRate) ==
    IF refundRate = Infinity THEN 0 ELSE Max(0, Min(10000, 10000 - refundRate * 20))

calculateSettlementTimeScore(avgSettlementDays) ==
    IF avgSettlementDays <= 100 THEN 10000
    ELSE IF avgSettlementDays <= 300 THEN Max(5000, 10000 - avgSettlementDays * 15)
    ELSE IF avgSettlementDays <= 700 THEN Max(0, 5000 - (avgSettlementDays - 300) * 10)
    ELSE 0

\* the weights, in percent
weights == [transactionVolume |-> 25, revenueConsistency |-> 25, growthTrend |-> 20,
            refundRate |-> 10, settlementTime |-> 20]

weightedSum(tv, rc, gt, rr, st) ==
    tv * weights.transactionVolume + rc * weights.revenueConsistency
        + gt * weights.growthTrend + rr * weights.refundRate + st * weights.settlementTime

\* Math.round of the weighted sum: the sum counts 1/10000 of a point
finalScoreTruncated(tv, rc, gt, rr, st) == weightedSum(tv, rc, gt, rr, st) \div 10000

finalScoreOf(tv, rc, gt, rr, st) == (weightedSum(tv, rc, gt, rr, st) + 5000) \div 10000

riskBandStrict(finalScore) ==
    IF finalScore > 80 THEN "Low" ELSE IF finalScore > 60 THEN "Medium" ELSE "High"

riskBandOf(finalScore) ==
    IF finalScore >= 80 THEN "Low" ELSE IF finalScore >= 60 THEN "Medium" ELSE "High"

\* limitMultiplier, in tenths
limitMultiplier(riskBand) ==
    IF riskBand = "Low" THEN 15 ELSE IF riskBand = "Medium" THEN 10 ELSE 5

\* routes/bank.js batch-assessment: the bucket a stored score is counted in
assessmentBucket(creditScore) ==
    IF creditScore < 60 THEN "highRisk"
    ELSE IF creditScore >= 60 /\ creditScore < 80 THEN "mediumRisk"
    ELSE "lowRisk"

CountOf(groups, st) == SumOver(groups, LAMBDA g : IF g.status = st THEN g.n ELSE 0)

\* the two early exits: no merchant row throws, no transaction in the window
\* returns null; a variant that scores an empty window
scoringGateScoresEmpty(merchantExists, transactionCount) ==
    IF ~merchantExists THEN "throw" ELSE "score"

scoringGate(merchantExists, transactionCount) ==
    IF ~merchantExists THEN "throw"
    ELSE IF transactionCount = 0 THEN "null"
    ELSE "score"

\* month-over-month growth in hundredths of a percent; a variant without the
\* guard on the previous month
growthMoMUnguarded(currentMonth, previousMonth) ==
    IF previousMonth = 0 THEN 100000
    ELSE ((currentMonth - previousMonth) * 10000) \div previousMonth

growthMoMOf(currentMonth, previousMonth) ==
    IF previousMonth > 0
    THEN ((currentMonth - previousMonth) * 10000) \div previousMonth
    ELSE 0

\* calculateCreditScore(merchantId) on the rows it reads: the merchant row,
\* the transactions of the last three months, the daily revenue rows; month
\* is now.getMonth().  Limits count 1/300 of a currency unit.
calculateCreditScore(merchantExists, groups, rows, month) ==
    IF scoringGate(merchantExists, SumOver(groups, LAMBDA g : g.n)) # "score"
    THEN [kind |-> scoringGate(merchantExists, SumOver(groups, LAMBDA g : g.n))]
    ELSE
      LET totalAmount == SumOver(groups, LAMBDA g : g.n * g.amount)
          transactionCount == SumOver(groups, LAMBDA g : g.n)
          successfulCount == CountOf(groups, "Success")
          refundedCount == CountOf(groups, "Refunded")
          refundRate == IF refundedCount > 0
                        THEN (IF successfulCount = 0 THEN Infinity
                              ELSE (refundedCount * 10000) \div successfulCount)
                        ELSE 0
          len == Len(rows)
          sum == SumOver(rows, LAMBDA d : d.totalAmount)
          \* stdev / mean = sqrt(sum of (len * v - sum)^2 / len) / sum
          spread == SumOver(rows, LAMBDA d : (len * d.totalAmount - sum) * (len * d.totalAmount - sum))
          volatility == IF len > 1
                        THEN (IF sum # 0
                              THEN Min(10000, (Sqrt((spread * 10000) \div len) * 100) \div sum)
                              ELSE 0)
                        ELSE 0
          settledN == SumOver(groups, LAMBDA g : IF g.settle # NotSettled THEN g.n ELSE 0)
          settledDays == SumOver(groups, LAMBDA g : IF g.settle # NotSettled THEN g.n * g.settle ELSE 0)
          avgSettlementDays == IF settledN > 0 THEN settledDays \div settledN ELSE 0
          currentMonth == SumOver(rows, LAMBDA d : IF d.month = month THEN d.totalAmount ELSE 0)
          previousMonth == SumOver(rows, LAMBDA d : IF d.month = month - 1 THEN d.totalAmount ELSE 0)
          growthMoM == growthMoMOf(currentMonth, previousMonth)
          tv == calculateTransactionVolumeScore(transactionCount)
          rc == calculateRevenueConsistencyScore(volatility)
          gt == calculateGrowthTrendScore(growthMoM)
          rr == calculateRefundRateScore(refundRate)
          st == calculateSettlementTimeScore(avgSettlementDays)
          finalScore == finalScoreOf(tv, rc, gt, rr, st)
          riskBand == riskBandOf(finalScore)
      IN [kind |-> "score",
          creditScore |-> finalScore,
          riskBand |-> riskBand,
          estimatedMinLimit |-> totalAmount * limitMultiplier(riskBand) * 8,
          estimatedMaxLimit |-> totalAmount * limitMultiplier(riskBand) * 12,
          transactionVolumeScore |-> tv,
          revenueConsistencyScore |-> rc,
          growthTrendScore |-> gt,
          refundRateScore |-> rr,
          settlementTimeScore |-> st,
          avgMonthlyRevenue3 |-> totalAmount,
          revenueVolatility |-> volatility,
          growthPercentageMoM |-> growthMoM,
          refundRatePercentage |-> refundRate,
          avgSettlementDays |-> avgSettlementDays,
          transactionCount3m |-> transactionCount,
          featureImportance |-> weights]

MaxGroups == 2
GroupSizes == {1, 60}
GroupKinds == {<<"Success", 50>>, <<"Success", 200>>, <<"Success", 500>>, <<"Success", 900>>,
               <<"Pending", NotSettled>>, <<"Refunded", 50>>, <<"Failed", NotSettled>>}
GroupSamples ==
    {[n |-> n, status |-> k[1], amount |-> 50, settle |-> k[2]] : n \in GroupSizes, k \in GroupKinds}

RECURSIVE SeqsUpTo(_, _)
SeqsUpTo(S, n) ==
    IF n = 0 THEN {<<>>}
    ELSE LET shorter == SeqsUpTo(S, n - 1)
         IN shorter \cup {Append(q, x) : q \in shorter, x \in S}

Months == {0, 6}
PrevMonth(m) == (m + 11) % 12
Row(a, m) == [totalAmount |-> a, month |-> m]

\* daily revenue rows, newest first
RevenueSamples(m) ==
    {<<>>,
     <<Row(1, m)>>,
     <<Row(1, m), Row(1, m)>>,
     <<Row(3, m), Row(1, PrevMonth(m))>>,
     <<Row(9, m), Row(8, PrevMonth(m))>>,
     <<Row(1, m), Row(3, PrevMonth(m))>>,
     <<Row(0, m), Row(0, PrevMonth(m))>>,
     <<Row(4, m), Row(0, m), Row(0, PrevMonth(m))>>,
     <<Row(4, m), Row(3, m), Row(4, PrevMonth(m)), Row(3, PrevMonth(m))>>}

CalculateCreditScoreCall ==
  /\ call = NoCall
  /\ \E merchantExists \in BOOLEAN, groups \in SeqsUpTo(GroupSamples, MaxGroups), month \in Months :
       \E rows \in RevenueSamples(month) :
         /\ call' = [fn |-> "calculateCreditScore", merchantExists |-> merchantExists,
                     groups |-> groups, rows |-> rows, month |-> month,
                     out |-> calculateCreditScore(merchantExists, groups, rows, month)]
         /\ PureFrame

NextScore == CalculateCreditScoreCall

SpecScore == InitClient /\ [][NextScore]_vars

(***************************************************************************)
(* Claims about the scoring service, checked under SpecScore.              *)
(***************************************************************************)
Scored == call.fn = "calculateCreditScore" /\ call.out.kind = "score"

ComponentScores(o) ==
    {o.transactionVolumeScore, o.revenueConsistencyScore, o.growthTrendScore,
     o.refundRateScore, o.settlementTimeScore}

\* C9: the composite score of a snapshot is the weighted sum of the five
\* component scores of the same snapshot, weights 0.25, 0.25, 0.20, 0.10 and
\* 0.20, rounded to the nearest integer (half up); the weights sum to 1, each
\* component score is in [0,100] and so is the composite.
C9_CompositeIsRoundedWeightedSum ==
    Scored =>
        LET o == call.out
            w == o.featureImportance
            sum10000 == 25 * o.transactionVolumeScore + 25 * o.revenueConsistencyScore
                          + 20 * o.growthTrendScore + 10 * o.refundRateScore
                          + 20 * o.settlementTimeScore
        IN /\ o.creditScore * 10000 <= sum10000 + 5000
           /\ sum10000 + 5000 < (o.creditScore + 1) * 10000
           /\ w.transactionVolume + w.revenueConsistency + w.growthTrend
                 + w.refundRate + w.settlementTime = 100
           /\ \A c \in ComponentScores(o) : 0 <= c /\ c <= 10000
           /\ 0 <= o.creditScore /\ o.creditScore <= 100

\* a snapshot whose weighted sum is rounded up to the composite
C9_Witness ==
    /\ Scored
    /\ weightedSum(call.out.transactionVolumeScore, call.out.revenueConsistencyScore,
                   call.out.growthTrendScore, call.out.refundRateScore,
                   call.out.settlementTimeScore) % 10000 >= 5000
    /\ call.out.creditScore > 60

\* C10: the stored risk band is Low iff score >= 80, Medium iff 60 <= score <
\* 80, High iff score < 60; the limits are avgMonthlyRevenue (a third of the
\* window's total amount) times 1.5 / 1.0 / 0.5 for Low / Medium / High times
\* 0.8 (min) and 1.2 (max), so min <= max; the batch assessment counts the
\* score in the bucket of its band.
C10_RiskBandAndLimits ==
    Scored =>
        LET o == call.out
            mult10 == CASE o.riskBand = "Low" -> 15
                        [] o.riskBand = "Medium" -> 10
                        [] o.riskBand = "High" -> 5
        IN /\ o.riskBand \in {"Low", "Medium", "High"}
           /\ o.riskBand = "Low" <=> o.creditScore >= 80
           /\ o.riskBand = "Medium" <=> (60 <= o.creditScore /\ o.creditScore < 80)
           /\ o.riskBand = "High" <=> o.creditScore < 60
           /\ o.estimatedMinLimit = o.avgMonthlyRevenue3 * mult10 * 8
           /\ o.estimatedMaxLimit = o.avgMonthlyRevenue3 * mult10 * 12
           /\ o.estimatedMinLimit <= o.estimatedMaxLimit
           /\ assessmentBucket(o.creditScore) =
                 (CASE o.riskBand = "Low" -> "lowRisk"
                    [] o.riskBand = "Medium" -> "mediumRisk"
                    [] o.riskBand = "High" -> "highRisk")

\* a snapshot on the boundary of the Low band
C10_Witness ==
    /\ Scored
    /\ call.out.creditScore = 80
    /\ call.out.riskBand = "Low"
    /\ call.out.estimatedMinLimit > 0

\* C11: for an existing merchant with no transaction in the scoring window
\* calculateCreditScore returns null, never a score object (so never a
\* creditScore of 0 for lack of data); for a merchant id that does not exist
\* it throws and produces no score.
C11_NoDataGivesNoScore ==
    call.fn = "calculateCreditScore" =>
        LET n == SumOver(call.groups, LAMBDA g : g.n)
        IN /\ (call.merchantExists /\ n = 0) => call.out.kind = "null"
           /\ ~call.merchantExists => call.out.kind = "throw"
           /\ call.out.kind = "score" => (call.merchantExists /\ n > 0)

\* an existing merchant without transactions, with revenue rows on file
C11_Witness ==
    /\ call.fn = "calculateCreditScore"
    /\ call.merchantExists
    /\ call.groups = <<>>
    /\ Len(call.rows) > 0
    /\ call.out.kind = "null"

\* revenue of the calendar month before the month of the call
PreviousMonthRevenue ==
    SumOver(call.rows, LAMBDA d : IF d.month = PrevMonth(call.month) THEN d.totalAmount ELSE 0)

\* C12: the divisions of the volatility and of the month-over-month growth
\* are guarded: fewer than two daily rows or a zero mean daily revenue give
\* volatility 0 and consistency score 100; a zero previous-month revenue
\* gives growth 0 and growth score 50.
C12_DivisionsGuarded ==
    Scored =>
        /\ (Len(call.rows) < 2 \/ SumOver(call.rows, LAMBDA d : d.totalAmount) = 0) =>
              /\ call.out.revenueVolatility = 0
              /\ call.out.revenueConsistencyScore = 10000
        /\ PreviousMonthRevenue = 0 =>
              /\ call.out.growthPercentageMoM = 0
              /\ call.out.growthTrendScore = 5000

\* two daily rows of zero revenue, one in the month of the call and one in
\* the month before: both divisors are zero
C12_Witness ==
    /\ Scored
    /\ Len(call.rows) = 2
    /\ SumOver(call.rows, LAMBDA d : d.totalAmount) = 0
    /\ PreviousMonthRevenue = 0
    /\ call.out.revenueConsistencyScore = 10000
    /\ call.out.growthTrendScore = 5000

(***************************************************************************)
(* services/earlyWarningService.js: the five detectors and detectAnomalies *)
(* (specifications SpecDetect and SpecMonitor).  Daily revenue rows are    *)
(* [totalAmount, transactionCount], newest first as the query orders them; *)
(* transactions are [status, refundStatus, settleDays] with settleDays in  *)
(* whole days; score snapshots are [calculationDate, creditScore, ...]     *)
(* with distinct calculation dates.  A quotient is compared with its       *)
(* threshold in exact arithmetic.                                          *)
(***************************************************************************)

\* the service is an ES module (import declarations, jest transform {}): the
\* identifier `require` used in the where clauses of four detectors is not
\* bound, and evaluating it throws a ReferenceError inside the detector's try
RequireDefined == FALSE

NoAlert == [kind |-> "null"]
Undefined == "undefined"
LlmOutcomes == {"ok", "failed", "unconfigured"}

\* analyzeAnomaly never throws: the model's text, the fallback sentence when
\* the call fails, a fallback object when no API key is configured
analyzeAnomaly(llm, metricName) ==
    CASE llm = "ok" -> [kind |-> "text", text |-> "analysis"]
      [] llm = "failed" -> [kind |-> "text", text |-> "Terjadi perubahan pada " \o metricName]
      [] llm = "unconfigured" -> [kind |-> "object", text |-> ""]

\* Array.prototype.slice(a - 1, b)
Slice(seq, a, b) == IF a > Min(b, Len(seq)) THEN <<>> ELSE SubSeq(seq, a, Min(b, Len(seq)))

\* (num / den) * 100 > t, false when den is 0 (the quotient is NaN or -Infinity)
ExceedsPercent(num, den, t) == den > 0 /\ num * 100 > t * den

\* the alert object a detector returns; no detector sets deviationPercentage
alertOf(alertType, severity, metricName, metricValue, thresholdValue, analysis) ==
    [kind |-> "alert", alertType |-> alertType, severity |-> severity,
     metricName |-> metricName, metricValue |-> metricValue,
     thresholdValue |-> thresholdValue, deviationPercentage |-> Undefined,
     qwenAnalysis |-> analysis, isResolved |-> FALSE]

dropSeverity(num, den) ==
    IF ExceedsPercent(num, den, 50) THEN "Critical"
    ELSE IF ExceedsPercent(num, den, 40) THEN "Medium" ELSE "Low"

\* days between new Date(null), the epoch, and a transaction date of today
EpochDays == 0 - 20000

\* transactions.map(t => (new Date(t.settlementDate) - new Date(t.transactionDate)) / day)
settlementDaysOf(txs) ==
    [i \in 1..Len(txs) |->
        IF txs[i].settleDays = NotSettled THEN EpochDays ELSE txs[i].settleDays]

\* dailyRevenues.slice(10, 30) and dailyRevenues.slice(0, 10)
past20Of(dailyRevenues) == Slice(dailyRevenues, 11, 30)
last10Of(dailyRevenues) == Slice(dailyRevenues, 1, 10)

detectRevenueDropAnomaly(dailyRevenues, llm) ==
    IF ~RequireDefined THEN NoAlert
    ELSE IF Len(dailyRevenues) < 10 THEN NoAlert
    ELSE LET past20 == past20Of(dailyRevenues)
             last10 == last10Of(dailyRevenues)
             sumPast == SumOver(past20, LAMBDA r : r.totalAmount)
             sumLast == SumOver(last10, LAMBDA r : r.totalAmount)
             num == sumPast * Len(last10) - sumLast * Len(past20)
             den == sumPast * Len(last10)
         IN IF Len(past20) > 0 /\ ExceedsPercent(num, den, 30)
            THEN alertOf("Revenue Drop", dropSeverity(num, den), "Daily Revenue",
                         sumLast \div Len(last10), (sumPast * 7) \div (Len(past20) * 10),
                         analyzeAnomaly(llm, "Daily Revenue"))
            ELSE NoAlert

detectRefundSpikeAnomaly(txs, llm) ==
    IF ~RequireDefined THEN NoAlert
    ELSE IF Len(txs) < 50 THEN NoAlert
    ELSE LET mid == Len(txs) \div 2
             past15 == Slice(txs, mid + 1, Len(txs))
             last15 == Slice(txs, 1, mid)
             pastRefunds == SumOver(past15, LAMBDA t : IF t.refundStatus = "Processed" THEN 1 ELSE 0)
             lastRefunds == SumOver(last15, LAMBDA t : IF t.refundStatus = "Processed" THEN 1 ELSE 0)
             num == lastRefunds * Len(past15) - pastRefunds * Len(last15)
             den == Len(last15) * Len(past15)
         IN IF ExceedsPercent(num, den, 5)
            THEN alertOf("Refund Spike",
                         IF ExceedsPercent(num, den, 15) THEN "Critical"
                         ELSE IF ExceedsPercent(num, den, 10) THEN "Medium" ELSE "Low",
                         "Refund Rate (%)", (lastRefunds * 100) \div Len(last15),
                         (pastRefunds * 100) \div Len(past15), analyzeAnomaly(llm, "Refund Rate"))
            ELSE NoAlert

detectSettlementDelayAnomaly(txs, llm) ==
    IF ~RequireDefined THEN NoAlert
    ELSE LET settled == SelectSeq(txs, LAMBDA t : t.status = "Success")
             n == Len(settled)
             settlementDays == settlementDaysOf(settled)
             sumDays == SumSeq(settlementDays)
         IN IF n < 10 THEN NoAlert
            ELSE IF sumDays > 3 * n
            THEN alertOf("Settlement Delay",
                         IF \E i \in 1..n : settlementDays[i] > 7 THEN "Critical"
                         ELSE IF sumDays > 5 * n THEN "Medium" ELSE "Low",
                         "Settlement Days", sumDays \div n, 3,
                         analyzeAnomaly(llm, "Settlement Days"))
            ELSE NoAlert

detectTransactionDropAnomaly(dailyRevenues, llm) ==
    IF ~RequireDefined THEN NoAlert
    ELSE IF Len(dailyRevenues) < 10 THEN NoAlert
    ELSE LET past20 == past20Of(dailyRevenues)
             last10 == last10Of(dailyRevenues)
             sumPast == SumOver(past20, LAMBDA r : r.transactionCount)
             sumLast == SumOver(last10, LAMBDA r : r.transactionCount)
             num == sumPast * Len(last10) - sumLast * Len(past20)
             den == sumPast * Len(last10)
         IN IF Len(past20) > 0 /\ ExceedsPercent(num, den, 25)
            THEN alertOf("Transaction Drop", dropSeverity(num, den), "Transaction Count",
                         sumLast \div Len(last10), (sumPast * 3) \div (Len(past20) * 4),
                         analyzeAnomaly(llm, "Transaction Count"))
            ELSE NoAlert

\* CreditScore.findAll({order: [["calculationDate", "DESC"]], limit: 2})
newestRow(rows) ==
    CHOOSE r \in {rows[i] : i \in 1..Len(rows)} :
        \A i \in 1..Len(rows) : rows[i].calculationDate <= r.calculationDate

latestTwo(rows) ==
    IF Len(rows) = 0 THEN <<>>
    ELSE LET first == newestRow(rows)
             rest == SelectSeq(rows, LAMBDA r : r # first)
         IN IF Len(rest) = 0 THEN <<first>> ELSE <<first, newestRow(rest)>>

\* a variant that takes the first two rows as stored
detectScoreDropAnomalyAsStored(scoreRows, llm) ==
    IF Len(scoreRows) < 2 THEN NoAlert
    ELSE LET scoreDrop == scoreRows[2].creditScore - scoreRows[1].creditScore
         IN IF scoreDrop > 15
            THEN alertOf("Score Drop",
                         IF scoreDrop > 30 THEN "Critical"
                         ELSE IF scoreDrop > 20 THEN "Medium" ELSE "Low",
                         "Credit Score", scoreRows[1].creditScore, scoreRows[2].creditScore,
                         analyzeAnomaly(llm, "Credit Score"))
            ELSE NoAlert

\* a variant that takes a missing previous snapshot for a score of 100
detectScoreDropAnomalyNoMinimum(scoreRows, llm) ==
    IF Len(scoreRows) = 1 /\ scoreRows[1].creditScore < 85
    THEN alertOf("Score Drop", "Low", "Credit Score", scoreRows[1].creditScore, 100,
                 analyzeAnomaly(llm, "Credit Score"))
    ELSE NoAlert

detectScoreDropAnomaly(scoreRows, llm) ==
    LET scoresRead == latestTwo(scoreRows)
    IN IF Len(scoresRead) < 2 THEN NoAlert
       ELSE LET latestScore == scoresRead[1].creditScore
                previousScore == scoresRead[2].creditScore
                scoreDrop == previousScore - latestScore
            IN IF scoreDrop > 15
               THEN alertOf("Score Drop",
                            IF scoreDrop > 30 THEN "Critical"
                            ELSE IF scoreDrop > 20 THEN "Medium" ELSE "Low",
                            "Credit Score", latestScore, previousScore,
                            analyzeAnomaly(llm, "Credit Score"))
               ELSE NoAlert

\* EarlyWarningAlert.create validates the row: deviationPercentage is
\* allowNull: false without default, qwenAnalysis is a TEXT column
alertRowValid(alert) ==
    /\ alert.deviationPercentage # Undefined
    /\ alert.qwenAnalysis.kind = "text"

\* for (const alert of alerts) await EarlyWarningAlert.create(alert)
RECURSIVE persistAlerts(_, _)
persistAlerts(table, found) ==
    IF found = <<>> THEN [threw |-> FALSE, table |-> table]
    ELSE IF ~alertRowValid(Head(found)) THEN [threw |-> TRUE, table |-> table]
    ELSE persistAlerts(Append(table, Head(found)), Tail(found))

\* a variant that closes the alerts on file when it runs
detectAnomaliesAutoResolve(table, dailyRevenues, txs, scoreRows, llm) ==
    [detected |-> <<NoAlert, NoAlert, NoAlert, NoAlert, NoAlert>>, found |-> <<>>,
     returned |-> <<>>, threw |-> FALSE,
     table |-> [i \in 1..Len(table) |-> [table[i] EXCEPT !.isResolved = TRUE]]]

\* a variant whose catch returns the alerts it had collected
detectAnomaliesReturnsFound(table, dailyRevenues, txs, scoreRows, llm) ==
    LET detected == <<detectRevenueDropAnomaly(dailyRevenues, llm),
                      detectRefundSpikeAnomaly(txs, llm),
                      detectSettlementDelayAnomaly(txs, llm),
                      detectTransactionDropAnomaly(dailyRevenues, llm),
                      detectScoreDropAnomaly(scoreRows, llm)>>
        found == SelectSeq(detected, LAMBDA a : a.kind = "alert")
        saved == persistAlerts(table, found)
    IN [detected |-> detected, found |-> found, returned |-> found,
        threw |-> FALSE, table |-> saved.table]

\* detectAnomalies(merchantId): the five detectors in order, then the
\* inserts; an error anywhere is caught and [] is returned
detectAnomalies(table, dailyRevenues, txs, scoreRows, llm) ==
    LET detected == <<detectRevenueDropAnomaly(dailyRevenues, llm),
                      detectRefundSpikeAnomaly(txs, llm),
                      detectSettlementDelayAnomaly(txs, llm),
                      detectTransactionDropAnomaly(dailyRevenues, llm),
                      detectScoreDropAnomaly(scoreRows, llm)>>
        found == SelectSeq(detected, LAMBDA a : a.kind = "alert")
        saved == persistAlerts(table, found)
    IN [detected |-> detected, found |-> found,
        returned |-> IF saved.threw THEN <<>> ELSE found,
        threw |-> FALSE, table |-> saved.table]

\* EarlyWarningAlert.update({isResolved: true}, {where: {id: alertId}})
markAlertResolved(table, alertId) ==
    [i \in 1..Len(table) |-> IF i = alertId THEN [table[i] EXCEPT !.isResolved = TRUE]
                             ELSE table[i]]

(***************************************************************************)
(* The detectors applied to sample tables (specification SpecDetect).      *)
(***************************************************************************)
MaxScoreRows == 3
Absent == 0
SnapshotScores == {85, 75, 70, 68, 55, 50}

Rep(n, x) == [i \in 1..n |-> x]
DayRow(a) == [totalAmount |-> a, transactionCount |-> a \div 100]
TxRow(status, refundStatus, settleDays) ==
    [status |-> status, refundStatus |-> refundStatus, settleDays |-> settleDays]

\* thirty days of revenue: ten recent days after twenty days of 1000
Drop(recent) == Rep(10, DayRow(recent)) \o Rep(20, DayRow(1000))

DailySamples ==
    {<<>>, Rep(9, DayRow(400)), Rep(10, DayRow(400)),
     Rep(15, DayRow(400)), Drop(800), Drop(700), Drop(600), Drop(400), Drop(1000)}

TxSamples ==
    {<<>>,
     Rep(9, TxRow("Success", "None", 9)),
     Rep(20, TxRow("Success", "Processed", 9)) \o Rep(29, TxRow("Failed", "None", 0)),
     Rep(30, TxRow("Success", "Processed", 1)) \o Rep(30, TxRow("Success", "None", 1)),
     Rep(60, TxRow("Success", "None", 4)),
     Rep(10, TxRow("Success", "None", 4)) \o Rep(2, TxRow("Success", "None", NotSettled))}

\* score tables: a score or none for each calculation date, stored oldest
\* first or newest first
ScoreRowsOf(f, newestFirst) ==
    SelectSeq([i \in 1..MaxScoreRows |->
                  LET d == IF newestFirst THEN MaxScoreRows + 1 - i ELSE i
                  IN [calculationDate |-> d, creditScore |-> f[d]]],
              LAMBDA r : r.creditScore # Absent)

ScoreTables ==
    {ScoreRowsOf(f, o) : f \in [1..MaxScoreRows -> SnapshotScores \cup {Absent}], o \in BOOLEAN}

ScoreTableSamples ==
    {<<>>, <<[calculationDate |-> 1, creditScore |-> 50]>>,
     <<[calculationDate |-> 1, creditScore |-> 85], [calculationDate |-> 2, creditScore |-> 50]>>}

DetectRevenueDropCall ==
    /\ call = NoCall
    /\ \E rows \in DailySamples, llm \in LlmOutcomes :
         call' = [fn |-> "detectRevenueDropAnomaly", dailyRevenues |-> rows, llm |-> llm,
                  out |-> detectRevenueDropAnomaly(rows, llm)]
    /\ PureFrame

DetectRefundSpikeCall ==
    /\ call = NoCall
    /\ \E txs \in TxSamples, llm \in LlmOutcomes :
         call' = [fn |-> "detectRefundSpikeAnomaly", txs |-> txs, llm |-> llm,
                  out |-> detectRefundSpikeAnomaly(txs, llm)]
    /\ PureFrame

DetectSettlementDelayCall ==
    /\ call = NoCall
    /\ \E txs \in TxSamples, llm \in LlmOutcomes :
         call' = [fn |-> "detectSettlementDelayAnomaly", txs |-> txs, llm |-> llm,
                  out |-> detectSettlementDelayAnomaly(txs, llm)]
    /\ PureFrame

DetectTransactionDropCall ==
    /\ call = NoCall
    /\ \E rows \in DailySamples, llm \in LlmOutcomes :
         call' = [fn |-> "detectTransactionDropAnomaly", dailyRevenues |-> rows, llm |-> llm,
                  out |-> detectTransactionDropAnomaly(rows, llm)]
    /\ PureFrame

DetectScoreDropCall ==
    /\ call = NoCall
    /\ \E rows \in ScoreTables, llm \in LlmOutcomes :
         call' = [fn |-> "detectScoreDropAnomaly", scoreRows |-> rows, llm |-> llm,
                  out |-> detectScoreDropAnomaly(rows, llm)]
    /\ PureFrame

DetectAnomaliesCall ==
    /\ call = NoCall
    /\ \E rows \in DailySamples, txs \in TxSamples, sc \in ScoreTableSamples, llm \in LlmOutcomes :
         call' = [fn |-> "detectAnomalies", dailyRevenues |-> rows, txs |-> txs,
                  scoreRows |-> sc, llm |-> llm,
                  out |-> detectAnomalies(<<>>, rows, txs, sc, llm)]
    /\ PureFrame

\* the settlement days the settlement-delay detector averages, for the rows
\* its query returns (status Success)
SettlementDaysCall ==
    /\ call = NoCall
    /\ \E txs \in TxSamples :
         call' = [fn |-> "settlementDays", txs |-> txs,
                  out |-> settlementDaysOf(SelectSeq(txs, LAMBDA t : t.status = "Success"))]
    /\ PureFrame

\* the two windows the drop detectors compare once the minimum of ten rows is
\* met
WindowsCall ==
    /\ call = NoCall
    /\ \E rows \in DailySamples :
         /\ Len(rows) >= 10
         /\ call' = [fn |-> "windows", dailyRevenues |-> rows,
                     past20 |-> past20Of(rows), last10 |-> last10Of(rows)]
    /\ PureFrame

NextDetect ==
    \/ SettlementDaysCall
    \/ WindowsCall
    \/ DetectRevenueDropCall
    \/ DetectRefundSpikeCall
    \/ DetectSettlementDelayCall
    \/ DetectTransactionDropCall
    \/ DetectScoreDropCall
    \/ DetectAnomaliesCall

SpecDetect == InitClient /\ [][NextDetect]_vars

(***************************************************************************)
(* Claims about the detectors, checked under SpecDetect.                   *)
(***************************************************************************)
\* sums of the historical window (rows 11..30) and of the recent window
HistoricalSum == SumOver(Slice(call.dailyRevenues, 11, 30), LAMBDA r : r.totalAmount)
RecentSum == SumOver(Slice(call.dailyRevenues, 1, 10), LAMBDA r : r.totalAmount)
\* the drop (H - R) / H against a percentage, H and R the window averages
DropAbove(pct) == (HistoricalSum - 2 * RecentSum) * 100 > pct * HistoricalSum
DropEquals(pct) == (HistoricalSum - 2 * RecentSum) * 100 = pct * HistoricalSum

\* C13: with thirty daily rows and a positive historical average the
\* revenue-drop detector returns an alert exactly when the drop exceeds 30%;
\* a 40% drop gives severity Medium, a 60% drop Critical, a 20% drop no alert.
C13_RevenueDropAlert ==
    (/\ call.fn = "detectRevenueDropAnomaly"
     /\ Len(call.dailyRevenues) = 30
     /\ HistoricalSum > 0) =>
        /\ call.out.kind = "alert" <=> DropAbove(30)
        /\ DropEquals(40) => (call.out.kind = "alert" /\ call.out.severity = "Medium")
        /\ DropEquals(60) => (call.out.kind = "alert" /\ call.out.severity = "Critical")
        /\ DropEquals(20) => call.out.kind = "null"

\* the snapshot with the greatest calculation date among the rows
NewestOf(rows) ==
    CHOOSE i \in 1..Len(rows) :
        \A j \in 1..Len(rows) : rows[j].calculationDate <= rows[i].calculationDate
\* and the one before it
SecondNewestOf(rows) ==
    CHOOSE i \in 1..Len(rows) \ {NewestOf(rows)} :
        \A j \in 1..Len(rows) \ {NewestOf(rows)} :
            rows[j].calculationDate <= rows[i].calculationDate
ObservedScoreDrop ==
    call.scoreRows[SecondNewestOf(call.scoreRows)].creditScore
        - call.scoreRows[NewestOf(call.scoreRows)].creditScore

\* C14: with at least two snapshots the score-drop detector returns an alert
\* iff previous - latest > 15, latest and previous being the two snapshots
\* with the greatest calculation dates; the severity is Critical above 30,
\* Medium above 20 and Low otherwise.
C14_ScoreDropAlert ==
    (call.fn = "detectScoreDropAnomaly" /\ Len(call.scoreRows) >= 2) =>
        /\ call.out.kind = "alert" <=> ObservedScoreDrop > 15
        /\ call.out.kind = "alert" =>
              /\ call.out.alertType = "Score Drop"
              /\ call.out.severity =
                    (IF ObservedScoreDrop > 30 THEN "Critical"
                     ELSE IF ObservedScoreDrop > 20 THEN "Medium" ELSE "Low")
              /\ call.out.metricValue = call.scoreRows[NewestOf(call.scoreRows)].creditScore

\* three snapshots stored oldest first, 85 then 68 the two newest: a 17-point
\* drop reported Low
C14_Witness ==
    /\ call.fn = "detectScoreDropAnomaly"
    /\ Len(call.scoreRows) = 3
    /\ NewestOf(call.scoreRows) = 3
    /\ ObservedScoreDrop = 17
    /\ call.out.kind = "alert"
    /\ call.out.severity = "Low"

SuccessRows(txs) == Len(SelectSeq(txs, LAMBDA t : t.status = "Success"))

\* C15: a detector whose sample is below its minimum (10 daily rows for the
\* revenue and the transaction drop, 50 transactions for the refund spike, 10
\* successful transactions for the settlement delay, 2 snapshots for the
\* score drop) returns no alert, and detectAnomalies completes without error.
C15_BelowMinimumIsSilent ==
    /\ call.fn \in {"detectRevenueDropAnomaly", "detectTransactionDropAnomaly"} =>
          (Len(call.dailyRevenues) < 10 => call.out = NoAlert)
    /\ call.fn = "detectRefundSpikeAnomaly" =>
          (Len(call.txs) < 50 => call.out = NoAlert)
    /\ call.fn = "detectSettlementDelayAnomaly" =>
          (SuccessRows(call.txs) < 10 => call.out = NoAlert)
    /\ call.fn = "detectScoreDropAnomaly" =>
          (Len(call.scoreRows) < 2 => call.out = NoAlert)
    /\ call.fn = "detectAnomalies" =>
          /\ ~call.out.threw
          /\ Len(call.dailyRevenues) < 10 =>
                (call.out.detected[1] = NoAlert /\ call.out.detected[4] = NoAlert)
          /\ Len(call.txs) < 50 => call.out.detected[2] = NoAlert
          /\ SuccessRows(call.txs) < 10 => call.out.detected[3] = NoAlert
          /\ Len(call.scoreRows) < 2 => call.out.detected[5] = NoAlert

\* detectAnomalies ran on nine daily rows, nine transactions and one snapshot
C15_Witness ==
    /\ call.fn = "detectAnomalies"
    /\ Len(call.dailyRevenues) = 9
    /\ Len(call.txs) = 9
    /\ Len(call.scoreRows) = 1
    /\ call.out.returned = <<>>
    /\ ~call.out.threw

(***************************************************************************)
(* The score snapshots and the alerts as tables (specification             *)
(* SpecMonitor): saveCreditScore, the merchant dashboard and credit detail *)
(* of routes/merchant.js, detectAnomalies and markAlertResolved.  scores   *)
(* and alerts hold the rows in insertion order, an alert's id is its       *)
(* position.  call is the service call or request just served.             *)
(***************************************************************************)
MaxSnapshots == 2
SnapshotDates == 1..MaxSnapshots
SavedScores == {85, 50}
Null == "null"

\* a row of early_warning_alerts written before the service runs
ExistingAlert ==
    [alertOf("Score Drop", "Low", "Credit Score", 68, 85,
             [kind |-> "text", text |-> "analysis"]) EXCEPT !.deviationPercentage = 20]

MonitorFrame == UNCHANGED <<client, transactions, daily, slots, wh, res, sent, lastOp,
                            users, merchants, time, resetTokens>>

InitMonitor ==
    /\ client = IdleClient
    /\ transactions = <<>>
    /\ daily = <<>>
    /\ slots = EmptyBag
    /\ wh = <<>>
    /\ res = <<>>
    /\ sent = NoMessage
    /\ lastOp = "init"
    /\ call = NoCall
    /\ scores = <<>>
    /\ alerts \in {<<>>, <<ExistingAlert>>}
    /\ AuthIdle

\* saveCreditScore(scoreData, qwenExplanation, qwenRecommendation):
\* CreditScore.create of one new row
SaveCreditScore ==
    \E d \in SnapshotDates, sc \in SavedScores, text \in {Null, "saved"} :
      /\ Len(scores) < MaxSnapshots
      /\ \A i \in 1..Len(scores) : scores[i].calculationDate # d
      /\ scores' = Append(scores, [calculationDate |-> d, creditScore |-> sc,
                                   riskBand |-> riskBandOf(sc),
                                   qwenExplanation |-> text, qwenRecommendation |-> text])
      /\ call' = [fn |-> "saveCreditScore"]
      /\ UNCHANGED alerts
      /\ MonitorFrame

\* CreditScore.findOne({order: [["calculationDate", "DESC"]]}) as a position
latestScoreIndex ==
    CHOOSE i \in 1..Len(scores) :
        \A j \in 1..Len(scores) : scores[j].calculationDate <= scores[i].calculationDate

\* GET /dashboard
Dashboard ==
    /\ call' = [fn |-> "dashboard",
                out |-> IF scores = <<>>
                        THEN [currentCreditScore |-> 0, riskBand |-> "N/A"]
                        ELSE [currentCreditScore |-> scores[latestScoreIndex].creditScore,
                              riskBand |-> scores[latestScoreIndex].riskBand]]
    /\ UNCHANGED <<scores, alerts>>
    /\ MonitorFrame

\* generateScoreExplanation: the model's JSON, the fallback texts when the
\* call fails, an object without explanation and recommendation when no API
\* key is configured
generateScoreExplanation(llm) ==
    CASE llm = "ok" -> [explanation |-> "generated", recommendation |-> "generated"]
      [] llm = "failed" -> [explanation |-> "fallback", recommendation |-> "fallback"]
      [] llm = "unconfigured" -> [explanation |-> Undefined, recommendation |-> Undefined]

\* a column written with undefined is stored as NULL
stored(v) == IF v = Undefined THEN Null ELSE v

\* GET /credit-detail: the latest snapshot, a fresh explanation, and
\* latestScore.update({qwenExplanation, qwenRecommendation})
CreditDetail ==
    \E llm \in LlmOutcomes :
      IF scores = <<>>
      THEN /\ call' = [fn |-> "creditDetail", status |-> "404"]
           /\ UNCHANGED <<scores, alerts>>
           /\ MonitorFrame
      ELSE LET ai == generateScoreExplanation(llm)
           IN /\ scores' = [scores EXCEPT
                     ![latestScoreIndex].qwenExplanation = stored(ai.explanation),
                     ![latestScoreIndex].qwenRecommendation = stored(ai.recommendation)]
              /\ call' = [fn |-> "creditDetail", status |-> "200"]
              /\ UNCHANGED alerts
              /\ MonitorFrame

\* the tables detectAnomalies reads besides the snapshots
MonitorDaily == {<<>>, Drop(400)}
MonitorTxs == {<<>>, Rep(60, TxRow("Success", "None", 4))}

DetectAnomalies ==
    \E rows \in MonitorDaily, txs \in MonitorTxs, llm \in LlmOutcomes :
      LET out == detectAnomalies(alerts, rows, txs, scores, llm)
      IN /\ alerts' = out.table
         /\ call' = [fn |-> "detectAnomalies", llm |-> llm, found |-> out.found,
                     returned |-> out.returned, threw |-> out.threw]
         /\ UNCHANGED scores
         /\ MonitorFrame

MarkAlertResolved ==
    \E alertId \in 1..2 :
      /\ alerts' = markAlertResolved(alerts, alertId)
      /\ call' = [fn |-> "markAlertResolved"]
      /\ UNCHANGED scores
      /\ MonitorFrame

NextMonitor ==
    \/ SaveCreditScore
    \/ Dashboard
    \/ CreditDetail
    \/ DetectAnomalies
    \/ MarkAlertResolved

SpecMonitor == InitMonitor /\ [][NextMonitor]_vars

(***************************************************************************)
(* Claims about the alerts and the snapshots, checked under SpecMonitor.   *)
(***************************************************************************)
\* C16: when the text-generation collaborator fails or is not configured
\* while a positive detection is annotated, detectAnomalies still stores the
\* alert and returns it.
C16_AlertStoredDespiteCollaborator ==
    (/\ call.fn = "detectAnomalies"
     /\ call.llm \in {"failed", "unconfigured"}
     /\ call.found # <<>>) =>
        /\ call.returned = call.found
        /\ \A i \in 1..Len(call.found) :
              \E j \in 1..Len(alerts) : alerts[j].alertType = call.found[i].alertType
                                        /\ alerts[j].metricValue = call.found[i].metricValue
                                        /\ ~alerts[j].isResolved

\* C17: detectAnomalies only appends alert rows, each with isResolved false,
\* and leaves every existing alert as it is; an alert's isResolved changes
\* only from false to true and only in markAlertResolved.
C17_AlertsOnlyInsertedByDetection ==
    [][ /\ call'.fn = "detectAnomalies" =>
              /\ Len(alerts') >= Len(alerts)
              /\ \A i \in 1..Len(alerts) : alerts'[i] = alerts[i]
              /\ \A i \in (Len(alerts) + 1)..Len(alerts') : ~alerts'[i].isResolved
        /\ \A i \in 1..Len(alerts) :
              (i <= Len(alerts') /\ alerts'[i].isResolved # alerts[i].isResolved) =>
                  /\ call'.fn = "markAlertResolved"
                  /\ ~alerts[i].isResolved
                  /\ alerts'[i].isResolved
      ]_vars

\* detection found a score drop while an unresolved alert was on file, and
\* the alert on file is as it was
C17_Witness ==
    /\ call.fn = "detectAnomalies"
    /\ call.found # <<>>
    /\ Len(alerts) > 0
    /\ alerts[1] = ExistingAlert

\* C20: a snapshot row, once written, never changes: the dashboard, the
\* credit detail and anomaly detection leave every existing row as it is, and
\* new scores are appended as new rows.
C20_SnapshotsImmutable ==
    [][ /\ Len(scores') >= Len(scores)
        /\ \A i \in 1..Len(scores) : scores'[i] = scores[i]
      ]_vars

Emails == {"a@m.id"}
\* the emails login is tried with: one is never registered
LoginEmails == Emails \cup {"nobody@m.id"}
RegisterPassword == "pw1"
NewPassword == "pw2"
Passwords == {RegisterPassword, NewPassword}
MaxTime == 4
\* the clock is read every 30 minutes
TickStep == 2
Millis == {0, 1}

\* bcrypt.hash(password, SALT_ROUNDS) and bcrypt.compare(password, hash)
bcryptHash(password) == <<"bcrypt", password>>
bcryptCompare(password, hash) == hash = bcryptHash(password)

\* throw { statusCode, message }
AppError(statusCode, message) ==
    [name |-> "Error", statusCode |-> statusCode, message |-> message]
UniqueConstraintError ==
    [name |-> "SequelizeUniqueConstraintError", statusCode |-> 0, message |-> "Validation error"]
JwtError(name) == [name |-> name, statusCode |-> 0, message |-> "jwt error"]

NoData == [userId |-> 0, email |-> "", accessToken |-> NoToken, refreshToken |-> NoToken,
           resetToken |-> NoToken]

errorHandler(err) ==
    IF err.name = "SequelizeUniqueConstraintError"
    THEN [status |-> 400, success |-> FALSE, message |-> "Data sudah ada", data |-> NoData]
    ELSE IF err.name = "JsonWebTokenError"
    THEN [status |-> 403, success |-> FALSE, message |-> "Token tidak valid", data |-> NoData]
    ELSE IF err.name = "TokenExpiredError"
    THEN [status |-> 401, success |-> FALSE, message |-> "Token sudah kadaluarsa", data |-> NoData]
    ELSE [status |-> IF err.statusCode # 0 THEN err.statusCode ELSE 500,
          success |-> FALSE, message |-> err.message, data |-> NoData]

\* res.status(s).json({ success: true, message, data })
success(status, message, data) ==
    [status |-> status, success |-> TRUE, message |-> message, data |-> data]

\* User.findOne({ where: { email } }): the index of the row, 0 for null
findUser(table, email) ==
    LET found == {i \in 1..Len(table) : table[i].email = email}
    IN IF found = {} THEN 0 ELSE CHOOSE i \in found : \A j \in found : i <= j

\* User.findByPk(id)
findByPk(table, id) == IF id \in 1..Len(table) THEN id ELSE 0

\* register's check for a user with the email
existingUserNever(table, email) == 0
existingUser(table, email) == findUser(table, email)

\* the unique index on users.email
emailUnique(table, email) == findUser(table, email) = 0

AuthFrame == UNCHANGED <<client, transactions, daily, wh, res, sent, lastOp, scores, alerts>>

\* register up to the await of bcrypt.hash
RegisterBegin ==
    /\ \E email \in Emails :
         IF existingUser(users, email) # 0
         THEN /\ call' = [fn |-> "register", email |-> email,
                          out |-> errorHandler(AppError(400, "Email sudah terdaftar"))]
              /\ UNCHANGED slots
         ELSE /\ CanSuspend
              /\ slots' = Suspend([op |-> "register", email |-> email,
                                   password |-> RegisterPassword])
              /\ UNCHANGED call
    /\ UNCHANGED <<users, merchants, time, resetTokens>>
    /\ AuthFrame

\* register from User.create to the response
RegisterFinish ==
    /\ \E s \in BagToSet(slots) :
         /\ s.op = "register"
         /\ slots' = Resume(s)
         /\ IF ~emailUnique(users, s.email)
            THEN /\ call' = [fn |-> "register", email |-> s.email,
                             out |-> errorHandler(UniqueConstraintError)]
                 /\ UNCHANGED <<users, merchants>>
            ELSE \E ms \in Millis :
                   LET id == Len(users) + 1
                       merchantId == <<time, ms>>
                   IN /\ users' = Append(users,
                                     [id |-> id, email |-> s.email,
                                      passwordHash |-> bcryptHash(s.password),
                                      resetPasswordToken |-> NoToken,
                                      resetPasswordExpiry |-> NoExpiry])
                      /\ IF \E i \in 1..Len(merchants) : merchants[i].merchantId = merchantId
                         THEN /\ UNCHANGED merchants
                              /\ call' = [fn |-> "register", email |-> s.email,
                                          out |-> errorHandler(UniqueConstraintError)]
                         ELSE /\ merchants' = Append(merchants,
                                     [merchantId |-> merchantId, userId |-> id,
                                      businessScale |-> "Micro"])
                              /\ call' = [fn |-> "register", email |-> s.email,
                                          out |-> success(201, "Registrasi berhasil",
                                                   [NoData EXCEPT !.userId = id,
                                                                  !.email = s.email])]
    /\ UNCHANGED <<time, resetTokens>>
    /\ AuthFrame

\* authService.login and its route
loginRevealing(table, email, password, now) ==
    LET i == findUser(table, email)
    IN IF i = 0
       THEN errorHandler(AppError(401, "Email tidak terdaftar"))
       ELSE IF ~bcryptCompare(password, table[i].passwordHash)
       THEN errorHandler(AppError(401, "Email atau password salah"))
       ELSE success(200, "Login berhasil",
              [NoData EXCEPT
                 !.userId = i, !.email = email,
                 !.accessToken = jwtSign([userId |-> i, email |-> email], JwtSecret,
                                         now, AccessLife),
                 !.refreshToken = jwtSign([userId |-> i, email |-> ""], RefreshSecret,
                                          now, RefreshLife)])

login(table, email, password, now) ==
    LET i == findUser(table, email)
    IN IF i = 0
       THEN errorHandler(AppError(401, "Email atau password salah"))
       ELSE IF ~bcryptCompare(password, table[i].passwordHash)
       THEN errorHandler(AppError(401, "Email atau password salah"))
       ELSE success(200, "Login berhasil",
              [NoData EXCEPT
                 !.userId = i, !.email = email,
                 !.accessToken = jwtSign([userId |-> i, email |-> email], JwtSecret,
                                         now, AccessLife),
                 !.refreshToken = jwtSign([userId |-> i, email |-> ""], RefreshSecret,
                                          now, RefreshLife)])

Login ==
    /\ \E email \in LoginEmails, password \in Passwords :
         call' = [fn |-> "login", email |-> email, password |-> password,
                  out |-> login(users, email, password, time)]
    /\ UNCHANGED <<slots, users, merchants, time, resetTokens>>
    /\ AuthFrame

\* authService.requestPasswordReset and its route
RequestPasswordReset ==
    /\ \E email \in Emails :
         LET i == findUser(users, email)
             resetToken == jwtSign([userId |-> i, email |-> email], JwtSecret,
                                   time, ResetLife)
         IN IF i = 0
            THEN /\ call' = [fn |-> "requestPasswordReset", email |-> email,
                             out |-> success(200, "Jika email terdaftar, link reset akan dikirim",
                                             NoData)]
                 /\ UNCHANGED <<users, resetTokens>>
            ELSE /\ users' = [users EXCEPT ![i].resetPasswordToken = resetToken,
                                           ![i].resetPasswordExpiry = time + ResetLife]
                 /\ resetTokens' = [resetTokens EXCEPT !.issued = @ \cup {resetToken}]
                 /\ call' = [fn |-> "requestPasswordReset", email |-> email,
                             out |-> success(200, "Link reset password telah dikirim ke email Anda",
                                             [NoData EXCEPT !.resetToken = resetToken])]
    /\ UNCHANGED <<slots, merchants, time>>
    /\ AuthFrame

\* resetPassword up to the await of bcrypt.hash
ResetBegin ==
    /\ \E resetToken \in resetTokens.issued \cup {ForgedResetToken} :
         LET verdict == jwtVerify(resetToken, JwtSecret, time)
             i == findByPk(users, resetToken.payload.userId)
             failed(err) == /\ call' = [fn |-> "resetPassword", token |-> resetToken,
                                        out |-> errorHandler(err)]
                            /\ UNCHANGED slots
         IN IF verdict # "ok" THEN failed(JwtError(verdict))
            ELSE IF i = 0 \/ users[i].resetPasswordToken # resetToken
            THEN failed(AppError(400, "Token reset tidak valid atau sudah kadaluarsa"))
            ELSE IF time > users[i].resetPasswordExpiry
            THEN failed(AppError(400, "Token reset sudah kadaluarsa"))
            ELSE /\ CanSuspend
                 /\ slots' = Suspend([op |-> "reset", token |-> resetToken, id |-> i,
                                      password |-> NewPassword])
                 /\ UNCHANGED call
    /\ UNCHANGED <<users, merchants, time, resetTokens>>
    /\ AuthFrame

\* resetPassword from user.update to the response
ResetFinish ==
    /\ \E s \in BagToSet(slots) :
         /\ s.op = "reset"
         /\ slots' = Resume(s)
         /\ users' = [users EXCEPT ![s.id].passwordHash = bcryptHash(s.password),
                                   ![s.id].resetPasswordToken = NoToken,
                                   ![s.id].resetPasswordExpiry = NoExpiry]
         /\ resetTokens' = [resetTokens EXCEPT !.used = @ \cup {s.token}]
         /\ call' = [fn |-> "resetPassword", token |-> s.token,
                     out |-> success(200, "Password berhasil direset. Silakan login dengan password baru.",
                                     NoData)]
    /\ UNCHANGED <<merchants, time>>
    /\ AuthFrame

\* time passes
Tick ==
    /\ time + TickStep <= MaxTime
    /\ time' = time + TickStep
    /\ UNCHANGED <<slots, call, users, merchants, resetTokens>>
    /\ AuthFrame

NextAuth ==
    \/ RegisterBegin
    \/ RegisterFinish
    \/ Login
    \/ RequestPasswordReset
    \/ ResetBegin
    \/ ResetFinish
    \/ Tick

SpecAuth == InitClient /\ [][NextAuth]_vars

(***************************************************************************)
(* Claims about authentication, checked under SpecAuth.                    *)
(***************************************************************************)
EmailTaken(email) == \E i \in 1..Len(users) : users[i].email = email

\* a register call for this email starts in this step
RegisterStarts(email) ==
    \/ /\ BagCardinality(slots') > BagCardinality(slots)
       /\ \E s \in BagToSet(slots') :
            s.op = "register" /\ s.email = email
            /\ CopiesIn(s, slots') > CopiesIn(s, slots)
    \/ /\ slots' = slots
       /\ call' # call
       /\ call'.fn = "register"
       /\ call'.email = email

LoginFailure ==
    [status |-> 401, success |-> FALSE, message |-> "Email atau password salah",
     data |-> NoData]

\* C24: login answers a non-existent email and an existing email with a wrong
\* password with the same response (401, "Email atau password salah") and
\* hands out no access or refresh token in either case.
C24_LoginFailuresIndistinguishable ==
    [][(/\ call'.fn = "login"
        /\ users' = users
        /\ \/ ~EmailTaken(call'.email)
           \/ \E i \in 1..Len(users) :
                /\ users[i].email = call'.email
                /\ users[i].passwordHash # bcryptHash(call'.password))
       => /\ call'.out = LoginFailure
          /\ call'.out.data.accessToken = NoToken
          /\ call'.out.data.refreshToken = NoToken]_vars

\* C25: every /api/bank endpoint serves a request that carries the valid
\* X-API-Key and rejects with 401, without running the handler, a request
\* whose X-API-Key is missing or invalid.
C25_BankRequiresApiKey ==
    call.fn = "bank" =>
        IF call.apiKey = BankApiKey
        THEN call.out.next
        ELSE call.out.status = 401 /\ ~call.out.next

\* C29: a reset token succeeds at most once and only while it is the user's
\* most recently issued, unexpired token; a failed resetPassword leaves the
\* user unchanged.
C29_ResetTokenSingleUse ==
    [][/\ (/\ call'.fn = "resetPassword"
           /\ call'.out.status = 200
           /\ BagCardinality(slots') < BagCardinality(slots))
          => /\ call'.token \notin resetTokens.used
             /\ \E i \in 1..Len(users) :
                  /\ users[i].id = call'.token.payload.userId
                  /\ users[i].resetPasswordToken = call'.token
                  /\ time < call'.token.exp
       /\ (call'.fn = "resetPassword" /\ call'.out.status # 200) => users' = users]_vars

C24_Witness ==
    /\ call.fn = "login"
    /\ EmailTaken(call.email)
    /\ call.out = LoginFailure

(***************************************************************************)
(* Further claims about the gateway client, checked under SpecClient.      *)
(***************************************************************************)
\* C26: for every request() call the X-REQUEST-ID header equals the
\* requestId field of the JSON body that is transmitted and signed.
C26_HeaderRequestIdMatchesBody ==
    (call.fn = "request" /\ ~call.out.threw) =>
        /\ call.out.msg.body = JsonStringify(call.out.msg.payload)
        /\ call.out.msg.headers.requestId = Get(call.out.msg.payload, "requestId")

(***************************************************************************)
(* Further claim about the webhook route, checked under Spec.              *)
(***************************************************************************)
\* C27: every response the webhook handler emits with the signed-callback
\* headers carries an X-SIGNATURE that is valid for the body emitted, on the
\* success path and on the 404 path alike.
C27_EmittedSignatureCoversBody ==
    (lastOp \in {"webhookReceive", "webhookApply"} /\ "X-SIGNATURE" \in res.headers.names) =>
        RsaVerify(client.privateKey,
                  buildSignStringForRequest(res.body, CallbackPath, res.headers.ts),
                  FromBase64(res.headers.sig))

C30_RefundRateIsPercentage ==
    Scored =>
        /\ call.out.refundRatePercentage # Infinity
        /\ call.out.refundRatePercentage >= 0
        /\ call.out.refundRatePercentage <= 10000

====
